---- MODULE Spec2Model ----
(***************************************************************************)
(* Model of lint_html.py: the linter for PL HTML files.                    *)
(*                                                                         *)
(* Strings the program slices, compares or searches (paths, file names,    *)
(* environment values) are sequences of one-character strings, so that     *)
(* substring search, split, strip, lower, basename and lexicographic sort  *)
(* are computed as Python computes them.  A document's text is a sequence  *)
(* of markup tokens (start tag, end tag, empty-element tag).  File names    *)
(* are matched as on POSIX, where glob is case-sensitive.                  *)
(***************************************************************************)
EXTENDS Integers, Sequences, FiniteSets, TLC

VARIABLES
  fs,                 \* the repository: what each path of Paths holds
  environ,            \* os.environ: TEST_MODE and EXPECTED_FAILURES
  pc,                 \* where main is: "start", "lint" (the loop), "done"
  test_mode,          \* main's test_mode
  expected_failures,  \* main's expected_failures, a set of file names
  html_files,         \* main's html_files, the sorted list of discovery
  idx,                \* position of the loop in html_files, from 1
  results,            \* main's results: file name -> has_errors, errors
  exit_code,          \* what main returned; -1 while it runs
  prev                \* the outcome of the run before this one, if any

vars ==
  <<fs, environ, pc, test_mode, expected_failures, html_files, idx,
    results, exit_code, prev>>

(***************************************************************************)
(* Bounds                                                                  *)
(***************************************************************************)
\* longest document text, in markup tokens, of the single-document checks
MaxLen ==
  5

(***************************************************************************)
(* String helpers (Python str semantics)                                   *)
(***************************************************************************)
\* code-point order of the characters that occur in the model
CharOrder ==
  <<" ", ",", ".", "/", "1", "H", "L", "M", "T", "Y",
    "a", "b", "e", "g", "h", "i", "l", "m", "n", "o", "r", "s", "t", "u",
    "x", "y", "z">>

Ord(c) ==
  CHOOSE i \in 1..Len(CharOrder) : CharOrder[i] = c

\* a < b for Python strings
RECURSIVE StrLess(_, _)
StrLess(a, b) ==
  IF b = <<>> THEN FALSE
  ELSE IF a = <<>> THEN TRUE
  ELSE IF a[1] # b[1] THEN Ord(a[1]) < Ord(b[1])
  ELSE StrLess(Tail(a), Tail(b))

\* sub in s
Contains(s, sub) ==
  \E i \in 1..(Len(s) - Len(sub) + 1) : SubSeq(s, i, i + Len(sub) - 1) = sub

\* s.endswith(suffix)
EndsWith(s, suffix) ==
  /\ Len(s) >= Len(suffix)
  /\ SubSeq(s, Len(s) - Len(suffix) + 1, Len(s)) = suffix

LowerChar(c) ==
  CASE c = "H" -> "h"
    [] c = "L" -> "l"
    [] c = "M" -> "m"
    [] c = "T" -> "t"
    [] c = "Y" -> "y"
    [] OTHER -> c

\* s.lower()
Lower(s) ==
  [i \in 1..Len(s) |-> LowerChar(s[i])]

\* s.strip()
RECURSIVE LStrip(_)
LStrip(s) ==
  IF s # <<>> /\ s[1] = " " THEN LStrip(Tail(s)) ELSE s

RECURSIVE RStrip(_)
RStrip(s) ==
  IF s # <<>> /\ s[Len(s)] = " " THEN RStrip(SubSeq(s, 1, Len(s) - 1)) ELSE s

Strip(s) ==
  RStrip(LStrip(s))

\* s.split(","): the list of the fields between the commas
RECURSIVE SplitFrom(_, _, _)
SplitFrom(s, i, cur) ==
  IF i > Len(s) THEN <<cur>>
  ELSE IF s[i] = "," THEN <<cur>> \o SplitFrom(s, i + 1, <<>>)
  ELSE SplitFrom(s, i + 1, Append(cur, s[i]))

Split(s) ==
  SplitFrom(s, 1, <<>>)

\* os.path.basename(p)
basename(p) ==
  LET slashes == {i \in 1..Len(p) : p[i] = "/"}
      last == IF slashes = {} THEN 0
              ELSE CHOOSE i \in slashes : \A j \in slashes : j <= i
  IN SubSeq(p, last + 1, Len(p))

\* "/".join(segments)
RECURSIVE JoinSegs(_)
JoinSegs(segs) ==
  IF Len(segs) = 1 THEN segs[1]
  ELSE segs[1] \o <<"/">> \o JoinSegs(Tail(segs))

\* sorted(list)
RECURSIVE Insert(_, _)
Insert(x, l) ==
  IF l = <<>> THEN <<x>>
  ELSE IF StrLess(x, l[1]) THEN <<x>> \o l
  ELSE <<l[1]>> \o Insert(x, Tail(l))

RECURSIVE sorted(_)
sorted(l) ==
  IF l = <<>> THEN <<>> ELSE Insert(l[1], sorted(Tail(l)))

RECURSIVE SetToSeq(_)
SetToSeq(S) ==
  IF S = {} THEN <<>>
  ELSE LET x == CHOOSE y \in S : TRUE IN <<x>> \o SetToSeq(S \ {x})

(***************************************************************************)
(* Names that occur in the file system and the environment                 *)
(***************************************************************************)
dot_git ==
  <<".", "g", "i", "t">>

dot_html ==
  <<".", "h", "t", "m", "l">>

dot_HTML ==
  <<".", "H", "T", "M", "L">>

x_html ==
  <<"x">> \o dot_html

y_HTML ==
  <<"y">> \o dot_HTML

z_html ==
  <<"z">> \o dot_html

x_git_html ==
  <<"x">> \o dot_git \o dot_html

\* the files a repository may hold, as paths relative to the root:
\* a/x.html, b/x.html, y.HTML, .git/x.html, x.git.html
Paths ==
  { <<<<"a">>, x_html>>,
    <<<<"b">>, x_html>>,
    <<y_HTML>>,
    <<dot_git, x_html>>,
    <<x_git_html>> }

\* default of GITHUB_WORKSPACE
repo_root ==
  <<".">>

\* os.path.join(root_dir, relative path)
PathString(root_dir, p) ==
  root_dir \o <<"/">> \o JoinSegs(p)

(***************************************************************************)
(* Documents                                                               *)
(***************************************************************************)
PL_MULTIPLE_CHOICE ==
  "pl-multiple-choice"

Tags ==
  {PL_MULTIPLE_CHOICE, "div"}

Tokens ==
  [type : {"open", "close", "empty"}, tag : Tags]

StartTag(t) ==
  [type |-> "open", tag |-> t]

EndTag(t) ==
  [type |-> "close", tag |-> t]

EmptyTag(t) ==
  [type |-> "empty", tag |-> t]

RECURSIVE SeqsOfLen(_, _)
SeqsOfLen(S, n) ==
  IF n = 0 THEN {<<>>}
  ELSE {Append(s, x) : s \in SeqsOfLen(S, n - 1), x \in S}

\* the texts of at most max_len tokens
Texts(max_len) ==
  UNION {SeqsOfLen(Tokens, n) : n \in 0..max_len}

\* what a path holds: nothing, a file whose read raises (a directory, bytes
\* that are not UTF-8, no permission), a name whose target is gone
\* (open raises FileNotFoundError), or a readable text
Absent ==
  [kind |-> "absent", text |-> <<>>]

Unreadable ==
  [kind |-> "unreadable", text |-> <<>>]

Dangling ==
  [kind |-> "dangling", text |-> <<>>]

File(text) ==
  [kind |-> "text", text |-> text]

\* <div/>
GoodText ==
  <<EmptyTag("div")>>

\* <div><pl-multiple-choice/></div>
NestedText ==
  <<StartTag("div"), EmptyTag(PL_MULTIPLE_CHOICE), EndTag("div")>>

\* <div><pl-multiple-choice></div>
MalformedText ==
  <<StartTag("div"), StartTag(PL_MULTIPLE_CHOICE), EndTag("div")>>

(***************************************************************************)
(* find_html_files                                                         *)
(***************************************************************************)
\* glob's rule for names that start with a dot: neither "**" nor "*" matches them
IsHidden(name) ==
  name # <<>> /\ name[1] = "."

\* glob.glob(os.path.join(root_dir, "**/*" + ext), recursive=True): the
\* entries below root_dir reached through directories that are not hidden,
\* whose own name is not hidden and ends in ext (POSIX: the case matters)
Glob(root_dir, ext) ==
  { PathString(root_dir, p) :
      p \in { q \in Paths :
                /\ fs[q].kind # "absent"
                /\ \A i \in 1..Len(q) : ~IsHidden(q[i])
                /\ EndsWith(q[Len(q)], ext) } }

find_html_files(root_dir) ==
  LET html_files_1 == SetToSeq(Glob(root_dir, dot_html)) \o
                      SetToSeq(Glob(root_dir, dot_HTML))
      NotGit(f) == ~Contains(f, dot_git)
  IN sorted(SelectSeq(html_files_1, NotGit))

(***************************************************************************)
(* ET.fromstring: a stack parser over the markup tokens.  The result is    *)
(* either a parse error or the element tree, as the list of its nodes in   *)
(* document order, each with its tag and the index of its parent (0: root) *)
(***************************************************************************)
ParseError ==
  [ok |-> FALSE, nodes |-> <<>>]

RECURSIVE ParseFrom(_, _, _, _, _)
ParseFrom(text, i, stack, nodes, closed) ==
  IF i > Len(text)
  THEN IF closed THEN [ok |-> TRUE, nodes |-> nodes]
       ELSE ParseError                    \* no element found / unclosed token
  ELSE
    LET tok == text[i]
        top == IF stack = <<>> THEN 0 ELSE stack[Len(stack)]
        node == [tag |-> tok.tag, parent |-> top]
    IN CASE tok.type = "open" ->
              IF closed THEN ParseError   \* junk after document element
              ELSE ParseFrom(text, i + 1, Append(stack, Len(nodes) + 1),
                             Append(nodes, node), FALSE)
         [] tok.type = "empty" ->
              IF closed THEN ParseError
              ELSE ParseFrom(text, i + 1, stack, Append(nodes, node),
                             stack = <<>>)
         [] tok.type = "close" ->
              IF stack = <<>> \/ nodes[top].tag # tok.tag
              THEN ParseError             \* mismatched tag
              ELSE ParseFrom(text, i + 1, SubSeq(stack, 1, Len(stack) - 1),
                             nodes, Len(stack) = 1)

fromstring(text) ==
  ParseFrom(text, 1, <<>>, <<>>, FALSE)

(***************************************************************************)
(* The checks of one file                                                  *)
(***************************************************************************)
E_XML_SYNTAX ==
  "XML syntax error"

E_NOT_FOUND ==
  "File not found"

E_READING ==
  "Error reading file"

E_CUSTOM ==
  "Error checking custom rules"

E_NESTING ==
  "<pl-multiple-choice> element must not be nested inside other elements"

\* open(file_path).read()
ReadFile(file_path) ==
  LET named == {p \in Paths : PathString(repo_root, p) = file_path}
  IN IF named = {} THEN Absent ELSE fs[CHOOSE p \in named : TRUE]

\* a variant with one handler for every exception: whatever goes wrong is
\* reported as an XML syntax error
check_xml_syntax_one_handler(file_path) ==
  LET f == ReadFile(file_path)
  IN IF f.kind = "text" /\ fromstring(f.text).ok THEN <<>>
     ELSE <<E_XML_SYNTAX>>

check_xml_syntax(file_path) ==
  LET f == ReadFile(file_path)
  IN CASE f.kind = "text" ->
            IF fromstring(f.text).ok THEN <<>> ELSE <<E_XML_SYNTAX>>
       [] f.kind \in {"absent", "dangling"} -> <<E_NOT_FOUND>>
       [] OTHER -> <<E_READING>>

\* for child in element
Children(tree, i) ==
  SelectSeq([j \in 1..Len(tree) |-> j], LAMBDA j : tree[j].parent = i)

RECURSIVE check_pl_multiple_choice_nesting(_, _, _)
RECURSIVE NestingOfChildren(_, _)
NestingOfChildren(tree, children) ==
  IF children = <<>> THEN <<>>
  ELSE check_pl_multiple_choice_nesting(tree, children[1], FALSE) \o
       NestingOfChildren(tree, Tail(children))

\* a variant that looks at the element and its children, and no deeper
nesting_of_children_only(tree, element, is_root) ==
  LET local_errors ==
        IF tree[element].tag = PL_MULTIPLE_CHOICE /\ ~is_root
        THEN <<E_NESTING>> ELSE <<>>
      nested == SelectSeq(Children(tree, element),
                          LAMBDA j : tree[j].tag = PL_MULTIPLE_CHOICE)
  IN local_errors \o [k \in 1..Len(nested) |-> E_NESTING]

\* a variant that forgets is_root: the root is held to the rule as well
nesting_without_is_root(tree, element, is_root) ==
  LET local_errors ==
        IF tree[element].tag = PL_MULTIPLE_CHOICE
        THEN <<E_NESTING>> ELSE <<>>
  IN local_errors \o NestingOfChildren(tree, Children(tree, element))

check_pl_multiple_choice_nesting(tree, element, is_root) ==
  LET local_errors ==
        IF tree[element].tag = PL_MULTIPLE_CHOICE /\ ~is_root
        THEN <<E_NESTING>> ELSE <<>>
  IN local_errors \o NestingOfChildren(tree, Children(tree, element))

\* a variant without the handler of ParseError around fromstring: the
\* parse error reaches the handler of Exception
check_custom_rules_no_parse_handler(file_path) ==
  LET f == ReadFile(file_path)
  IN CASE f.kind = "text" ->
            LET tree == fromstring(f.text)
            IN IF ~tree.ok THEN <<E_CUSTOM>>
               ELSE check_pl_multiple_choice_nesting(tree.nodes, 1, TRUE)
       [] f.kind \in {"absent", "dangling"} -> <<E_NOT_FOUND>>
       [] OTHER -> <<E_CUSTOM>>

check_custom_rules(file_path) ==
  LET f == ReadFile(file_path)
  IN CASE f.kind = "text" ->
            LET tree == fromstring(f.text)
            IN IF ~tree.ok THEN <<>>
               ELSE check_pl_multiple_choice_nesting(tree.nodes, 1, TRUE)
       [] f.kind \in {"absent", "dangling"} -> <<E_NOT_FOUND>>
       [] OTHER -> <<E_CUSTOM>>

lint_file(file_path) ==
  check_xml_syntax(file_path) \o check_custom_rules(file_path)

(***************************************************************************)
(* main                                                                    *)
(***************************************************************************)
\* values of TEST_MODE: unset, "Yes"
TestModeValues ==
  { <<>>, <<"Y", "e", "s">> }

\* values of EXPECTED_FAILURES: unset, "x.html", " , ", "x.html, z.html"
ExpectedFailuresValues ==
  { <<>>,
    x_html,
    <<" ", ",", " ">>,
    x_html \o <<",", " ">> \o z_html }

Environs ==
  [TEST_MODE : TestModeValues, EXPECTED_FAILURES : ExpectedFailuresValues]

\* os.getenv("TEST_MODE", "").lower() in ["true", "1", "yes"]
ParseTestMode(value) ==
  Lower(value) \in { <<"t", "r", "u", "e">>, <<"1">>, <<"y", "e", "s">> }

\* set(f.strip() for f in expected_failures_str.split(",") if f.strip())
ParseExpectedFailures(mode, expected_failures_str) ==
  IF mode /\ expected_failures_str # <<>>
  THEN LET fields == Split(expected_failures_str)
       IN {Strip(fields[i]) : i \in 1..Len(fields)} \ {<<>>}
  ELSE {}

NoResults ==
  [f \in {} |-> [has_errors |-> FALSE, errors |-> <<>>]]

\* has_errors = any(result["has_errors"] for result in results.values())
AnyHasErrors(res) ==
  \E filename \in DOMAIN res : res[filename].has_errors

\* a variant of the loop without its last branch: a file that fails
\* without being expected to does not clear test_passed
TestPassed_expected_only(res, expected) ==
  ~ \E filename \in DOMAIN res :
       filename \in expected /\ ~res[filename].has_errors

\* the loop of test mode: test_passed stays True unless some file name in
\* results was expected to fail and passed, or not expected to fail and failed
TestPassed(res, expected) ==
  ~ \E filename \in DOMAIN res :
       LET should_fail == filename \in expected
           did_fail == res[filename].has_errors
       IN \/ should_fail /\ ~did_fail
          \/ ~should_fail /\ did_fail

NoRun ==
  [ran |-> FALSE, environ |-> [TEST_MODE |-> <<>>, EXPECTED_FAILURES |-> <<>>],
   test_mode |-> FALSE, expected_failures |-> {},
   results |-> NoResults, exit_code |-> -1]

\* the process as started: nothing read yet
Fresh ==
  /\ pc = "start"
  /\ test_mode = FALSE
  /\ expected_failures = {}
  /\ html_files = <<>>
  /\ idx = 1
  /\ results = NoResults
  /\ exit_code = -1

\* a variant whose early return reports "no HTML files" as a failure
Discover_empty_fails ==
  /\ pc = "start"
  /\ test_mode' = ParseTestMode(environ.TEST_MODE)
  /\ expected_failures' =
       ParseExpectedFailures(test_mode', environ.EXPECTED_FAILURES)
  /\ html_files' = find_html_files(repo_root)
  /\ IF html_files' = <<>>
     THEN pc' = "done" /\ exit_code' = 1
     ELSE pc' = "lint" /\ exit_code' = exit_code
  /\ UNCHANGED <<fs, environ, idx, results, prev>>

\* main up to the loop: the environment, discovery, the early return
Discover ==
  /\ pc = "start"
  /\ test_mode' = ParseTestMode(environ.TEST_MODE)
  /\ expected_failures' =
       ParseExpectedFailures(test_mode', environ.EXPECTED_FAILURES)
  /\ html_files' = find_html_files(repo_root)
  /\ IF html_files' = <<>>
     THEN pc' = "done" /\ exit_code' = 0
     ELSE pc' = "lint" /\ exit_code' = exit_code
  /\ UNCHANGED <<fs, environ, idx, results, prev>>

\* one iteration of "for file_path in html_files"
LintOne ==
  /\ pc = "lint"
  /\ idx <= Len(html_files)
  /\ LET file_path == html_files[idx]
         errors == lint_file(file_path)
         filename == basename(file_path)
         result == [has_errors |-> errors # <<>>, errors |-> errors]
     IN results' = [f \in DOMAIN results \cup {filename} |->
                      IF f = filename THEN result ELSE results[f]]
  /\ idx' = idx + 1
  /\ UNCHANGED <<fs, environ, pc, test_mode, expected_failures, html_files,
                 exit_code, prev>>

\* a variant whose normal mode forgives the files EXPECTED_FAILURES names
Report_forgiving ==
  /\ pc = "lint"
  /\ idx > Len(html_files)
  /\ exit_code' =
       IF test_mode
       THEN IF TestPassed(results, expected_failures) THEN 0 ELSE 1
       ELSE LET forgiven ==
                  ParseExpectedFailures(TRUE, environ.EXPECTED_FAILURES)
            IN IF \E filename \in DOMAIN results \ forgiven :
                    results[filename].has_errors
               THEN 1 ELSE 0
  /\ pc' = "done"
  /\ UNCHANGED <<fs, environ, test_mode, expected_failures, html_files, idx,
                 results, prev>>

\* after the loop: the overall pass/fail of the mode
Report ==
  /\ pc = "lint"
  /\ idx > Len(html_files)
  /\ exit_code' =
       IF test_mode
       THEN IF TestPassed(results, expected_failures) THEN 0 ELSE 1
       ELSE IF AnyHasErrors(results) THEN 1 ELSE 0
  /\ pc' = "done"
  /\ UNCHANGED <<fs, environ, test_mode, expected_failures, html_files, idx,
                 results, prev>>

\* the linter is run again on the same files, with an environment of the
\* caller's choice; prev keeps what the run before it gave
Rerun ==
  /\ pc = "done"
  /\ prev' = [ran |-> TRUE, environ |-> environ, test_mode |-> test_mode,
              expected_failures |-> expected_failures,
              results |-> results, exit_code |-> exit_code]
  /\ environ' \in Environs
  /\ pc' = "start"
  /\ test_mode' = FALSE
  /\ expected_failures' = {}
  /\ html_files' = <<>>
  /\ idx' = 1
  /\ results' = NoResults
  /\ exit_code' = -1
  /\ UNCHANGED fs

(***************************************************************************)
(* Spec: one run of main over any repository of the files of Paths         *)
(***************************************************************************)
RunContents ==
  {Absent, Unreadable, Dangling,
   File(GoodText), File(NestedText), File(MalformedText)}

Init ==
  /\ fs \in [Paths -> RunContents]
  /\ environ \in Environs
  /\ prev = NoRun
  /\ Fresh

Next ==
  \/ Discover
  \/ LintOne
  \/ Report

Spec ==
  Init /\ [][Next]_vars

(***************************************************************************)
(* RerunSpec: runs of main one after the other over the same repository,   *)
(* each with its own environment                                           *)
(***************************************************************************)
RerunContents ==
  {Absent, Unreadable, File(GoodText), File(NestedText)}

RerunInit ==
  /\ fs \in [Paths -> RerunContents]
  /\ environ \in Environs
  /\ prev = NoRun
  /\ Fresh

RerunNext ==
  \/ Discover
  \/ LintOne
  \/ Report
  \/ Rerun

RerunSpec ==
  RerunInit /\ [][RerunNext]_vars

(***************************************************************************)
(* LintSpec: one run over a repository of one file, a/x.html, which holds  *)
(* any text of at most MaxLen tokens or cannot be read                     *)
(***************************************************************************)
LintPath ==
  <<<<"a">>, x_html>>

LintContents(max_len) ==
  {Unreadable, Dangling} \cup {File(t) : t \in Texts(max_len)}

LintInit ==
  /\ fs \in { [p \in Paths |-> IF p = LintPath THEN c ELSE Absent] :
                c \in LintContents(MaxLen) }
  /\ environ = [TEST_MODE |-> <<>>, EXPECTED_FAILURES |-> <<>>]
  /\ prev = NoRun
  /\ Fresh

LintNext ==
  \/ Discover
  \/ LintOne
  \/ Report

LintSpec ==
  LintInit /\ [][LintNext]_vars


(***************************************************************************)
(* Properties                                                              *)
(***************************************************************************)
\* the files linted so far, as indices of html_files
Linted ==
  {i \in DOMAIN html_files : i < idx}

ResultOf(file_path) ==
  results[basename(file_path)]

Recorded(file_path) ==
  basename(file_path) \in DOMAIN results

CountOf(errors, kind) ==
  Len(SelectSeq(errors, LAMBDA e : e = kind))

IsHtmlName(name) ==
  EndsWith(name, dot_html) \/ EndsWith(name, dot_HTML)

\* the path lies inside a directory named .git
InsideVcsDir(p) ==
  \E i \in 1..(Len(p) - 1) : p[i] = dot_git

CannotBeRead(file_path) ==
  ReadFile(file_path).kind \in {"unreadable", "dangling"}

Malformed(file_path) ==
  LET f == ReadFile(file_path)
  IN f.kind = "text" /\ ~fromstring(f.text).ok

WellFormed(file_path) ==
  LET f == ReadFile(file_path)
  IN f.kind = "text" /\ fromstring(f.text).ok

TreeOf(file_path) ==
  fromstring(ReadFile(file_path).text).nodes

\* C1: in strict mode (test_mode false), if lint_file gives a nonempty error
\* list for any discovered document, main returns exit code 1.
C1_StrictRunFailsIfAnyDocumentFails ==
  (pc = "done" /\ ~test_mode) =>
    ((\E i \in DOMAIN html_files : lint_file(html_files[i]) # <<>>)
       => exit_code = 1)

\* every expected-to-fail identifier has a linted document with errors, and
\* every linted document with another identifier has none
ExpectationsMet ==
  /\ \A f \in expected_failures :
       \E i \in DOMAIN html_files :
          basename(html_files[i]) = f /\ lint_file(html_files[i]) # <<>>
  /\ \A i \in DOMAIN html_files :
       basename(html_files[i]) \notin expected_failures
         => lint_file(html_files[i]) = <<>>

\* C2: in expectation mode (test_mode true) main returns 0 only if every
\* identifier of expected_failures has errors and every other linted
\* document has none; any divergence makes main return 1.
C2_ExpectationRunPassesOnlyIfExpectationsMet ==
  (pc = "done" /\ test_mode) =>
    /\ exit_code = 0 => ExpectationsMet
    /\ ~ExpectationsMet => exit_code = 1

\* C3: for a readable document whose content fails XML parsing, lint_file
\* returns exactly one error, the XML syntax error, and no
\* structural-placement error.
C3_MalformedGivesOnlySyntaxError ==
  \A i \in Linted :
     Malformed(html_files[i])
       => ResultOf(html_files[i]).errors = <<E_XML_SYNTAX>>

\* a malformed text that holds the reserved element below the root has been
\* linted
C3_Witness ==
  /\ pc = "done"
  /\ fs[LintPath] = File(MalformedText)
  /\ x_html \in DOMAIN results
  /\ results[x_html].errors = <<E_XML_SYNTAX>>

\* C4: for a well-formed document tree the number of structural-placement
\* errors equals the number of nodes tagged pl-multiple-choice that are not
\* the root, at any depth, also below a root that is pl-multiple-choice.
C4_OneNestingErrorPerNonRootNode ==
  \A i \in Linted :
     WellFormed(html_files[i]) =>
       LET tree == TreeOf(html_files[i])
       IN CountOf(ResultOf(html_files[i]).errors, E_NESTING) =
            Cardinality({j \in DOMAIN tree :
                           /\ tree[j].parent # 0
                           /\ tree[j].tag = PL_MULTIPLE_CHOICE})

\* <pl-multiple-choice><div><pl-multiple-choice/></div></pl-multiple-choice>
\* has been linted: one error, for the node two levels below the root
C4_Witness ==
  /\ pc = "done"
  /\ fs[LintPath] =
       File(<<StartTag(PL_MULTIPLE_CHOICE), StartTag("div"),
              EmptyTag(PL_MULTIPLE_CHOICE), EndTag("div"),
              EndTag(PL_MULTIPLE_CHOICE)>>)
  /\ x_html \in DOMAIN results
  /\ results[x_html].errors = <<E_NESTING>>

\* C5: for a readable, well-formed document in which pl-multiple-choice is
\* absent or occurs only as the root node, lint_file returns an empty error
\* list.
C5_RootOnlyOrAbsentPasses ==
  \A i \in Linted :
     ( /\ WellFormed(html_files[i])
       /\ \A j \in DOMAIN TreeOf(html_files[i]) :
             TreeOf(html_files[i])[j].tag = PL_MULTIPLE_CHOICE
               => TreeOf(html_files[i])[j].parent = 0 )
       => /\ ResultOf(html_files[i]).errors = <<>>
          /\ ~ResultOf(html_files[i]).has_errors

\* <pl-multiple-choice><div/></pl-multiple-choice> has been linted and passed
C5_Witness ==
  /\ pc = "done"
  /\ fs[LintPath] =
       File(<<StartTag(PL_MULTIPLE_CHOICE), EmptyTag("div"),
              EndTag(PL_MULTIPLE_CHOICE)>>)
  /\ x_html \in DOMAIN results
  /\ ~results[x_html].has_errors

\* the iteration of the loop on a document that cannot be read records it as
\* failing, with a read error and neither a syntax nor a placement error,
\* and leaves the loop running on the next document
UnreadableStep ==
  ( /\ pc = "lint"
    /\ idx <= Len(html_files)
    /\ CannotBeRead(html_files[idx]) )
    => /\ basename(html_files[idx]) \in DOMAIN results'
       /\ LET r == results'[basename(html_files[idx])]
          IN /\ r.has_errors
             /\ \E k \in DOMAIN r.errors :
                   r.errors[k] \in {E_NOT_FOUND, E_READING}
             /\ \A k \in DOMAIN r.errors :
                   r.errors[k] \notin {E_XML_SYNTAX, E_NESTING}
       /\ pc' = "lint"
       /\ idx' = idx + 1
       /\ html_files' = html_files

\* at the end of a run every discovered document has been linted, and the
\* result under each file name is that of the last document of that name
AllLintedAndRecorded ==
  pc = "done" =>
    /\ idx = Len(html_files) + 1
    /\ \A i \in DOMAIN html_files :
         /\ Recorded(html_files[i])
         /\ (\A j \in DOMAIN html_files :
                j > i => basename(html_files[j]) # basename(html_files[i]))
              => ResultOf(html_files[i]).errors = lint_file(html_files[i])

\* C6: a document that cannot be read is reported with a read-error kind
\* distinct from the syntax and structural-placement kinds, is recorded as
\* failing (has_errors true), and does not abort the run: every document
\* after it is still linted and recorded.
C6_UnreadableIsRecordedAndRunContinues ==
  [][UnreadableStep]_vars /\ []AllLintedAndRecorded

\* a run has ended in which a document that cannot be read stands recorded
\* as failing and a document after it has been linted and recorded
C6_Witness ==
  /\ pc = "done"
  /\ \E i, j \in DOMAIN html_files :
        /\ i < j
        /\ CannotBeRead(html_files[i])
        /\ basename(html_files[i]) # basename(html_files[j])
        /\ ResultOf(html_files[i]).has_errors
        /\ Recorded(html_files[j])
        /\ ~ResultOf(html_files[j]).has_errors

\* C7: discovery returns a sorted sequence without duplicates of the HTML
\* file paths under the root, excluding exactly those inside a
\* version-control metadata directory: every .html/.HTML file outside such a
\* directory is included once, and no file inside one is included.
C7_DiscoveryExcludesExactlyVcsDirs ==
  pc \in {"lint", "done"} =>
    /\ \A i, j \in DOMAIN html_files :
          i < j => StrLess(html_files[i], html_files[j])
    /\ {html_files[i] : i \in DOMAIN html_files} =
         { PathString(repo_root, p) :
             p \in { q \in Paths : /\ fs[q].kind # "absent"
                                   /\ IsHtmlName(q[Len(q)])
                                   /\ ~InsideVcsDir(q) } }

\* C8: expected_failures has no effect when test_mode is false: two runs
\* over the same documents, both with test_mode false, that differ only in
\* EXPECTED_FAILURES return the same exit code and per-document results.
C8_ExpectedFailuresIgnoredInStrictMode ==
  ( /\ pc = "done"
    /\ prev.ran
    /\ ~test_mode
    /\ ~prev.test_mode
    /\ environ.TEST_MODE = prev.environ.TEST_MODE )
    => /\ exit_code = prev.exit_code
       /\ results = prev.results

\* two strict runs have ended, the first without EXPECTED_FAILURES, the
\* second with EXPECTED_FAILURES naming a file that fails
C8_Witness ==
  /\ pc = "done"
  /\ prev.ran
  /\ ~test_mode
  /\ ~prev.test_mode
  /\ prev.environ.EXPECTED_FAILURES = <<>>
  /\ environ.EXPECTED_FAILURES = x_html
  /\ x_html \in DOMAIN results
  /\ results[x_html].has_errors
  /\ exit_code = 1

\* C9: when discovery yields no documents, main returns exit code 0 at once
\* without linting anything, in both modes, whatever expected_failures is.
C9_NoDocumentsReturnsZero ==
  (pc # "start" /\ find_html_files(repo_root) = <<>>) =>
    /\ pc = "done"
    /\ exit_code = 0
    /\ results = NoResults
    /\ idx = 1

\* an expectation run with expected failures has ended over a repository
\* whose only files are ones discovery does not return
C9_Witness ==
  /\ pc = "done"
  /\ find_html_files(repo_root) = <<>>
  /\ test_mode
  /\ expected_failures # {}
  /\ \E p \in Paths : fs[p].kind # "absent"
  /\ exit_code = 0

\* C10: expectation mode with an empty expected_failures set gives the same
\* exit code as strict mode, for every sequence of documents.
C10_EmptyExpectationEqualsStrict ==
  ( /\ pc = "done"
    /\ prev.ran
    /\ \/ test_mode /\ expected_failures = {} /\ ~prev.test_mode
       \/ prev.test_mode /\ prev.expected_failures = {} /\ ~test_mode )
    => exit_code = prev.exit_code

\* a strict run that failed is followed by an expectation run whose
\* EXPECTED_FAILURES, " , ", names no file
C10_Witness ==
  /\ pc = "done"
  /\ prev.ran
  /\ ~prev.test_mode
  /\ prev.exit_code = 1
  /\ test_mode
  /\ environ.EXPECTED_FAILURES = <<" ", ",", " ">>
  /\ expected_failures = {}
  /\ exit_code = 1

====
